---- MODULE Spec2Model ----
(***************************************************************************)
(* The orchestration core of roop (src/roop/core.py): run(), parse_args(), *)
(* start() and destroy(), as a state machine.  One action per statement    *)
(* group of the source; every call the core makes is appended to `log`.    *)
(* The collaborators of roop.utilities and the frame processor modules are *)
(* outside core.py: their effect on the workspace and on the output file   *)
(* is modelled from their contract, their results are nondeterministic.    *)
(***************************************************************************)
EXTENDS Integers, Sequences, FiniteSets, TLC

\* Bounds of the model.
MaxStages == 2      \* at most this many requested frame processors
MaxFrames == 2      \* extraction yields 0..MaxFrames frames
MaxAvailable == 3   \* the runtime reports at most this many providers
MaxRequested == 2   \* at most this many requested provider names

\* Program constants.
FallbackFps == 30   \* 'Extracting frames with 30 FPS...'

\* The frame rates detect_fps may report for a target.
DetectedFps == {24, 25}

VARIABLES
    pc,               \* position of the main flow in run()/start()
    i,                \* index of the frame processor a loop is at
    handler,          \* the SIGINT handler of parse_args is installed
    source_path,      \* roop.globals.source_path is not None
    target_path,      \* roop.globals.target_path: "none", "image", "video"
    output_path,      \* roop.globals.output_path is not None
    output_file,      \* the file output_path names: "output", "source", "target"; "none"
    headless,         \* roop.globals.headless
    frame_processors, \* number of requested frame processors, in order 1..n
    keep_fps,         \* roop.globals.keep_fps
    keep_temp,        \* roop.globals.keep_temp
    skip_audio,       \* roop.globals.skip_audio
    target_valid,     \* is_image(target) / is_video(target)
    target_fps,       \* what detect_fps(target) reports
    ws,               \* the temp workspace of the target exists
    frames,           \* number of frame files in the workspace
    tmpvideo,         \* the reassembled temp video exists
    output,           \* file at the output path: "absent", "valid", "invalid"
    written,          \* the files written so far, among "source", "target", "output"
    active,           \* frame processors inside process_image/process_video/post_process
    log,              \* every call made so far, in order
    available,        \* onnxruntime.get_available_providers()
    requested,        \* args.execution_providers
    thread_arg,       \* args.execution_thread_count: <<n>> as given, <<>> when not given
    execution_providers,    \* roop.globals.execution_providers
    execution_thread_count  \* roop.globals.execution_thread_count

vars == <<pc, i, handler, source_path, target_path, output_path, output_file,
          headless, frame_processors, keep_fps, keep_temp, skip_audio, target_valid,
          target_fps, ws, frames, tmpvideo, output, written, active, log,
          available, requested, thread_arg, execution_providers,
          execution_thread_count>>

execution == <<available, requested, thread_arg, execution_providers,
               execution_thread_count>>
globals == <<source_path, target_path, output_path, output_file, headless, frame_processors,
             keep_fps, keep_temp, skip_audio, target_valid, target_fps, execution>>
files == <<ws, frames, tmpvideo, output, written>>

\* A logged call: the operation, a numeric argument (the frame processor's
\* index, a frame rate, or 0) and a text (a status message or a result).
Ev(op, arg, msg) == [op |-> op, arg |-> arg, msg |-> msg]
Call(op, arg) == Ev(op, arg, "")

\* update_status(message, scope): scope 0 is 'ROOP.CORE', scope k the NAME of
\* frame processor k.
update_status(message, scope) == Ev("update_status", scope, message)

Result(b) == IF b THEN "true" ELSE "false"

----------------------------------------------------------------------------
\* Provider names are strings, modelled as sequences of characters.

ExecutionProvider ==
    <<"E","x","e","c","u","t","i","o","n","P","r","o","v","i","d","e","r">>
CPUExecutionProvider == <<"C","P","U">> \o ExecutionProvider
CUDAExecutionProvider == <<"C","U","D","A">> \o ExecutionProvider
CoreMLExecutionProvider == <<"C","o","r","e","M","L">> \o ExecutionProvider

\* The providers a runtime may report.
KnownProviders ==
    {CPUExecutionProvider, CUDAExecutionProvider, CoreMLExecutionProvider}

Range(f) == {f[k] : k \in DOMAIN f}
SeqsUpTo(S, n) == UNION {[1..m -> S] : m \in 0..n}
Distinct(f) == \A a, b \in DOMAIN f : a # b => f[a] # f[b]

\* What get_available_providers may return: distinct known providers in the
\* runtime's order of priority.
ProviderLists == {l \in SeqsUpTo(KnownProviders, MaxAvailable) : Distinct(l)}
\* The CPU provider is part of every build of the runtime.
AvailableLists == {l \in ProviderLists : CPUExecutionProvider \in Range(l)}

UpperCase == <<"A","B","C","D","E","F","G","H","I","J","K","L","M",
               "N","O","P","Q","R","S","T","U","V","W","X","Y","Z">>
LowerCase == <<"a","b","c","d","e","f","g","h","i","j","k","l","m",
               "n","o","p","q","r","s","t","u","v","w","x","y","z">>

\* str.lower()
lower(s) ==
    [k \in 1..Len(s) |->
        IF \E u \in 1..Len(UpperCase) : UpperCase[u] = s[k]
        THEN LowerCase[CHOOSE u \in 1..Len(UpperCase) : UpperCase[u] = s[k]]
        ELSE s[k]]

\* str.replace(old, ''): every occurrence of old, left to right
RECURSIVE remove(_, _)
remove(s, old) ==
    IF Len(s) < Len(old) \/ Len(old) = 0 THEN s
    ELSE IF SubSeq(s, 1, Len(old)) = old
         THEN remove(SubSeq(s, Len(old) + 1, Len(s)), old)
         ELSE <<Head(s)>> \o remove(Tail(s), old)

\* `a in b` of two strings
contains(a, b) ==
    \E k \in 0..(Len(b) - Len(a)) : SubSeq(b, k + 1, k + Len(a)) = a

\* encode_execution_providers, lines 77-78
encode_execution_providers(providers) ==
    [k \in 1..Len(providers) |-> lower(remove(providers[k], ExecutionProvider))]

\* the filter of decode_execution_providers over zip(providers, encoded)
RECURSIVE decode_zip(_, _, _)
decode_zip(providers, encoded, wanted) ==
    IF providers = <<>> THEN <<>>
    ELSE (IF \E k \in 1..Len(wanted) : contains(wanted[k], Head(encoded))
          THEN <<Head(providers)>>
          ELSE <<>>)
         \o decode_zip(Tail(providers), Tail(encoded), wanted)

\* A faulty variant of decode_execution_providers: the result follows the
\* order of the request
RECURSIVE decode_in_request_order(_, _)
decode_in_request_order(providers, wanted) ==
    IF wanted = <<>> THEN <<>>
    ELSE LET first == decode_zip(providers, encode_execution_providers(providers),
                                 <<Head(wanted)>>)
             rest == decode_in_request_order(providers, Tail(wanted))
         IN first \o SelectSeq(rest, LAMBDA p : p \notin Range(first))

\* decode_execution_providers, lines 81-83, with the runtime's list
decode_execution_providers(providers, wanted) ==
    decode_zip(providers, encode_execution_providers(providers), wanted)

\* suggest_execution_providers, lines 86-87
suggest_execution_providers(providers) == encode_execution_providers(providers)

\* A faulty variant of suggest_execution_thread_count: the test looks at the
\* runtime's first provider only
suggest_execution_thread_count_first(providers) ==
    IF providers # <<>> /\ Head(providers) = CUDAExecutionProvider THEN 4 ELSE 1

\* suggest_execution_thread_count, lines 94-97
suggest_execution_thread_count(providers) ==
    IF CUDAExecutionProvider \in Range(providers) THEN 4 ELSE 1

\* The default of --execution-providers, line 47
DefaultProviders == << <<"c","p","u">> >>

\* What a user may type after --execution-providers: names of known providers
RequestedLists ==
    SeqsUpTo(Range(encode_execution_providers(
                 <<CPUExecutionProvider, CUDAExecutionProvider, CoreMLExecutionProvider>>)),
             MaxRequested) \ {<<>>}

\* What a user may type after --execution-thread-count
ThreadArgs == {8}

\* The state before run(): nothing parsed, no workspace, no output.
Fresh ==
    /\ pc = "run"
    /\ i = 0
    /\ handler = FALSE
    /\ source_path = FALSE
    /\ target_path = "none"
    /\ output_path = FALSE
    /\ output_file = "none"
    /\ headless = FALSE
    /\ frame_processors = 1
    /\ keep_fps = TRUE
    /\ keep_temp = FALSE
    /\ skip_audio = FALSE
    /\ target_valid = FALSE
    /\ target_fps = 24
    /\ ws = FALSE
    /\ frames = 0
    /\ tmpvideo = FALSE
    /\ output = "absent"
    /\ written = {}
    /\ active = {}
    /\ log = <<>>
    /\ requested = <<>>
    /\ thread_arg = <<>>
    /\ execution_providers = <<>>
    /\ execution_thread_count = 0

\* A run on a machine whose runtime reports the CPU provider only.
Init ==
    /\ Fresh
    /\ available = <<CPUExecutionProvider>>

----------------------------------------------------------------------------
\* roop.utilities, from their contract.

\* clean_temp(target): deletes the workspace and its frames unless keep_temp.
clean_temp_ws == IF keep_temp THEN ws ELSE FALSE
clean_temp_frames == IF keep_temp THEN frames ELSE 0
clean_temp_tmpvideo == IF keep_temp THEN tmpvideo ELSE FALSE

\* A faulty variant of clean_temp_raises: deleting a workspace that is not
\* there raises
clean_temp_raises_missing(exists) == ~exists /\ ~keep_temp

\* clean_temp(target) does not fail, whether or not the workspace exists.
clean_temp_raises(exists) == FALSE

\* detect_fps(target)
detect_fps == target_fps

\* normalize_output_path(source, target, output): None when no output is given.
normalize_output_path(source, target, out) == out

\* The files an output path can name: a file of its own, or the very file
\* the source path or the target path names.
OutputFiles(s, t) ==
    {"output"} \cup (IF s THEN {"source"} ELSE {})
               \cup (IF t # "none" THEN {"target"} ELSE {})

----------------------------------------------------------------------------
\* run() and parse_args()

\* parse_args, line 28: signal.signal(SIGINT, destroy)
ParseArgsSignal ==
    /\ pc = "run"
    /\ pc' = "parse_args"
    /\ handler' = TRUE
    /\ UNCHANGED <<i, globals, files, active, log>>

\* --execution-providers, line 47: each name given must be one of the choices
\* suggest_execution_providers(); the default is not checked against them.
ValidChoice(req) ==
    \/ req = DefaultProviders
    \/ \A k \in 1..Len(req) : req[k] \in Range(suggest_execution_providers(available))

\* parse_args, lines 47 and 52: argparse rejects a name that is not a choice
\* and the process exits with a usage error
ParseArgsError ==
    /\ pc = "parse_args"
    /\ \E req \in RequestedLists :
        /\ ~ValidChoice(req)
        /\ requested' = req
    /\ log' = Append(log, Ev("argparse.error", 0, "invalid choice"))
    /\ pc' = "usage_error"
    /\ UNCHANGED <<i, handler, source_path, target_path, output_path, output_file, headless,
                   frame_processors, keep_fps, keep_temp, skip_audio, target_valid,
                   target_fps, available, thread_arg, execution_providers,
                   execution_thread_count, files, active>>

\* A faulty variant of ParseArgsExecution: the names given are not checked
\* against the choices
ParseArgsExecutionUnchecked ==
    \E req \in {DefaultProviders} \cup RequestedLists,
       th \in {<<>>} \cup {<<n>> : n \in ThreadArgs} :
        /\ requested' = req
        /\ thread_arg' = th
        /\ execution_providers' = decode_execution_providers(available, req)
        /\ execution_thread_count' =
               IF th = <<>> THEN suggest_execution_thread_count(available) ELSE th[1]
        /\ available' = available

\* parse_args, lines 47-48 and 72-73: the providers are resolved from the
\* names given (or the default), the thread count is the one given or the
\* suggested default
ParseArgsExecution ==
    \E req \in {DefaultProviders} \cup RequestedLists,
       th \in {<<>>} \cup {<<n>> : n \in ThreadArgs} :
        /\ ValidChoice(req)
        /\ requested' = req
        /\ thread_arg' = th
        /\ execution_providers' = decode_execution_providers(available, req)
        /\ execution_thread_count' =
               IF th = <<>> THEN suggest_execution_thread_count(available) ELSE th[1]
        /\ available' = available

\* parse_args, lines 52-74: the arguments become the globals.  keep_fps is
\* store_true with default True: it is True whatever the command line says.
ParseArgs ==
    /\ pc = "parse_args"
    /\ ParseArgsExecution
    /\ \E s \in BOOLEAN, t \in {"none", "image", "video"}, o \in BOOLEAN,
          n \in 1..MaxStages, kt \in BOOLEAN, sa \in BOOLEAN,
          tv \in BOOLEAN, fps \in DetectedFps :
        /\ source_path' = s
        /\ target_path' = t
        /\ output_path' = normalize_output_path(s, t, o)
        /\ IF normalize_output_path(s, t, o)
           THEN output_file' \in OutputFiles(s, t)
           ELSE output_file' = "none"
        /\ headless' = (s /\ t # "none" /\ normalize_output_path(s, t, o))
        /\ frame_processors' = n
        /\ keep_fps' = TRUE
        /\ keep_temp' = kt
        /\ skip_audio' = sa
        /\ target_valid' = (t # "none" /\ tv)
        /\ target_fps' = IF t = "video" THEN fps ELSE 24
    /\ pc' = "pre_check"
    /\ UNCHANGED <<i, handler, files, active, log>>

\* run, lines 216-217 with pre_check, lines 121-128
PreCheck ==
    /\ pc = "pre_check"
    /\ \E ok \in BOOLEAN :
        IF ok
        THEN /\ pc' = "stage_pre_check"
             /\ i' = 1
             /\ log' = log
        ELSE /\ pc' = "done"
             /\ i' = i
             /\ log' = Append(log, update_status("not supported or not installed", 0))
    /\ UNCHANGED <<handler, globals, files, active>>

\* run, lines 218-220: every frame processor's pre_check
StagePreCheck ==
    /\ pc = "stage_pre_check"
    /\ i <= frame_processors
    /\ \E ok \in BOOLEAN :
        /\ log' = Append(log, Ev("pre_check", i, Result(ok)))
        /\ IF ok
           THEN /\ pc' = pc
                /\ i' = i + 1
           ELSE /\ pc' = "done"
                /\ i' = i
    /\ UNCHANGED <<handler, globals, files, active>>

\* A faulty variant of LimitResources: the governor is forgotten
LimitResourcesSkipped ==
    /\ pc = "stage_pre_check"
    /\ i > frame_processors
    /\ pc' = IF headless THEN "start" ELSE "ui"
    /\ i' = 1
    /\ UNCHANGED <<handler, globals, files, active, log>>

\* run, lines 221-227 with limit_resources, lines 100-118
LimitResources ==
    /\ pc = "stage_pre_check"
    /\ i > frame_processors
    /\ log' = Append(log, Call("limit_resources", 0))
    /\ pc' = IF headless THEN "start" ELSE "ui"
    /\ i' = 1
    /\ UNCHANGED <<handler, globals, files, active>>

\* run, lines 225-227: ui.init().  The front-end sets the paths and the
\* switches of the job and calls start().
UiStart ==
    /\ pc = "ui"
    /\ \E t \in {"image", "video"}, kf \in BOOLEAN, tv \in BOOLEAN, fps \in DetectedFps :
        /\ source_path' = TRUE
        /\ target_path' = t
        /\ output_path' = TRUE
        /\ output_file' \in OutputFiles(TRUE, t)
        /\ keep_fps' = kf
        /\ target_valid' = tv
        /\ target_fps' = IF t = "video" THEN fps ELSE 24
    /\ pc' = "start"
    /\ i' = 1
    /\ UNCHANGED <<handler, headless, frame_processors, keep_temp, skip_audio,
                   execution, files, active, log>>

----------------------------------------------------------------------------
\* start()

\* has_image_extension(target)
has_image_extension(t) == t = "image"

\* A faulty variant of StagePreStart: the result of pre_start is ignored
StagePreStartIgnored ==
    /\ pc = "start"
    /\ i <= frame_processors
    /\ \E ok \in BOOLEAN :
        log' = Append(log, Ev("pre_start", i, Result(ok)))
    /\ i' = i + 1
    /\ UNCHANGED <<pc, handler, globals, files, active>>

\* start, lines 136-138: every frame processor's pre_start; the first false
\* result returns.
StagePreStart ==
    /\ pc = "start"
    /\ i <= frame_processors
    /\ \E ok \in BOOLEAN :
        /\ log' = Append(log, Ev("pre_start", i, Result(ok)))
        /\ IF ok
           THEN /\ pc' = pc
                /\ i' = i + 1
           ELSE /\ pc' = "returned"
                /\ i' = i
    /\ UNCHANGED <<handler, globals, files, active>>

\* A faulty variant of ImageCopy: the copy does not test whether the two
\* paths name one file
ImageCopyUnchecked ==
    /\ pc = "start"
    /\ i > frame_processors
    /\ has_image_extension(target_path)
    /\ output' = IF target_valid THEN "valid" ELSE "invalid"
    /\ written' = written \cup {output_file}
    /\ log' = Append(log, Ev("copy2", 0, "target_path->output_path"))
    /\ pc' = "image_stage"
    /\ i' = 1
    /\ UNCHANGED <<handler, globals, ws, frames, tmpvideo, active>>

\* start, lines 140-143: the image branch; shutil.copy2(target, output).
\* copy2 raises SameFileError, before it writes, when both paths name one
\* file; otherwise it overwrites the file the output path names.
ImageCopy ==
    /\ pc = "start"
    /\ i > frame_processors
    /\ has_image_extension(target_path)
    /\ IF output_file = "target"
       THEN /\ log' = log \o << Ev("copy2", 0, "target_path->output_path"),
                                Ev("exception", 0, "SameFileError") >>
            /\ pc' = "crashed"
            /\ UNCHANGED <<output, written>>
       ELSE /\ output' = IF target_valid THEN "valid" ELSE "invalid"
            /\ written' = written \cup {output_file}
            /\ log' = Append(log, Ev("copy2", 0, "target_path->output_path"))
            /\ pc' = "image_stage"
    /\ i' = 1
    /\ UNCHANGED <<handler, globals, ws, frames, tmpvideo, active>>

\* A faulty variant of ImageProcessCall: the loop starts at the second processor
ImageProcessCallFromSecond ==
    /\ pc = "image_stage"
    /\ i <= frame_processors
    /\ LET k == IF i = 1 /\ frame_processors > 1 THEN 2 ELSE i IN
        /\ log' = log \o << update_status("Progressing...", k),
                            Ev("process_image", k, "output_path->output_path") >>
        /\ active' = active \cup {k}
        /\ i' = k
    /\ pc' = "process_image"
    /\ UNCHANGED <<handler, globals, files>>

\* start, lines 145-147: process_image(source, output, output) is called
ImageProcessCall ==
    /\ pc = "image_stage"
    /\ i <= frame_processors
    /\ log' = log \o << update_status("Progressing...", i),
                        Ev("process_image", i, "output_path->output_path") >>
    /\ active' = active \cup {i}
    /\ pc' = "process_image"
    /\ UNCHANGED <<i, handler, globals, files>>

\* start, line 147: process_image returns; the output file is overwritten
\* with the processed image
ImageProcessReturn ==
    /\ pc = "process_image"
    /\ log' = Append(log, Call("process_image_return", i))
    /\ written' = written \cup {output_file}
    /\ active' = active \ {i}
    /\ pc' = "image_post"
    /\ UNCHANGED <<i, handler, globals, ws, frames, tmpvideo, output>>

\* start, line 148: post_process is called
ImagePostProcessCall ==
    /\ pc = "image_post"
    /\ log' = Append(log, Call("post_process", i))
    /\ active' = active \cup {i}
    /\ pc' = "image_post_run"
    /\ UNCHANGED <<i, handler, globals, files>>

\* start, line 148: post_process returns; the loop goes to the next processor
ImagePostProcessReturn ==
    /\ pc = "image_post_run"
    /\ log' = Append(log, Call("post_process_return", i))
    /\ active' = active \ {i}
    /\ pc' = "image_stage"
    /\ i' = i + 1
    /\ UNCHANGED <<handler, globals, files>>

\* start, lines 149-154: the image is validated, by is_image(target_path)
ImageValidate ==
    /\ pc = "image_stage"
    /\ i > frame_processors
    /\ log' = Append(log, update_status(IF target_valid
                                        THEN "Processing to image succeed!"
                                        ELSE "Processing to image failed!", 0))
    /\ pc' = "returned"
    /\ UNCHANGED <<i, handler, globals, files, active>>

----------------------------------------------------------------------------
\* start(), the video branch

\* A faulty variant of CreateTemp: the image branch falls through to the video path
CreateTempAnyTarget ==
    /\ pc = "start"
    /\ i > frame_processors
    /\ log' = log \o << update_status("Creating temporary resources...", 0),
                        Call("create_temp", 0) >>
    /\ ws' = TRUE
    /\ frames' = 0
    /\ tmpvideo' = FALSE
    /\ pc' = "extract"
    /\ UNCHANGED <<i, handler, globals, output, written, active>>

\* start, lines 158-159: create_temp(target) makes a fresh workspace
CreateTemp ==
    /\ pc = "start"
    /\ i > frame_processors
    /\ ~has_image_extension(target_path)
    /\ log' = log \o << update_status("Creating temporary resources...", 0),
                        Call("create_temp", 0) >>
    /\ ws' = TRUE
    /\ frames' = 0
    /\ tmpvideo' = FALSE
    /\ pc' = "extract"
    /\ UNCHANGED <<i, handler, globals, output, written, active>>

\* start, lines 161-167: extract_frames at the detected rate when keep_fps,
\* at the fallback rate otherwise; the tool leaves any number of frames
ExtractFrames ==
    /\ pc = "extract"
    /\ \E k \in 0..MaxFrames : frames' = k
    /\ log' = log \o
         (IF keep_fps
          THEN << update_status("Extracting frames with {fps} FPS...", 0),
                  Call("extract_frames", detect_fps) >>
          ELSE << update_status("Extracting frames with 30 FPS...", 0),
                  Call("extract_frames", FallbackFps) >>)
    /\ pc' = "get_frames"
    /\ UNCHANGED <<i, handler, globals, ws, tmpvideo, output, written, active>>

\* A faulty variant of GetTempFramePaths: an empty frame list is not tested
GetTempFramePathsUntested ==
    /\ pc = "get_frames"
    /\ pc' = "video_stage"
    /\ log' = Append(log, Ev("get_temp_frame_paths", frames,
                             IF frames > 0 THEN "frames" ELSE "empty"))
    /\ i' = 1
    /\ UNCHANGED <<handler, globals, files, active>>

\* start, lines 169-177: get_temp_frame_paths; with no frames start returns
GetTempFramePaths ==
    /\ pc = "get_frames"
    /\ IF frames > 0
       THEN /\ pc' = "video_stage"
            /\ log' = Append(log, Ev("get_temp_frame_paths", frames, "frames"))
       ELSE /\ pc' = "returned"
            /\ log' = log \o << Ev("get_temp_frame_paths", frames, "empty"),
                                update_status("Temporary frames not found...", 0) >>
    /\ i' = 1
    /\ UNCHANGED <<handler, globals, files, active>>

\* start, lines 171-173: process_video(source, temp_frame_paths) is called
VideoProcessCall ==
    /\ pc = "video_stage"
    /\ i <= frame_processors
    /\ log' = log \o << update_status("Progressing...", i),
                        Call("process_video", i) >>
    /\ active' = active \cup {i}
    /\ pc' = "process_video"
    /\ UNCHANGED <<i, handler, globals, files>>

\* A faulty variant of VideoProcessReturn: post_process is left out of the loop
VideoProcessReturnNoPost ==
    /\ pc = "process_video"
    /\ log' = Append(log, Call("process_video_return", i))
    /\ active' = active \ {i}
    /\ pc' = "video_stage"
    /\ i' = i + 1
    /\ UNCHANGED <<handler, globals, files>>

\* start, line 173: process_video returns
VideoProcessReturn ==
    /\ pc = "process_video"
    /\ log' = Append(log, Call("process_video_return", i))
    /\ active' = active \ {i}
    /\ pc' = "video_post"
    /\ UNCHANGED <<i, handler, globals, files>>

\* start, line 174: post_process is called
VideoPostProcessCall ==
    /\ pc = "video_post"
    /\ log' = Append(log, Call("post_process", i))
    /\ active' = active \cup {i}
    /\ pc' = "video_post_run"
    /\ UNCHANGED <<i, handler, globals, files>>

\* start, line 174: post_process returns; the loop goes to the next processor
VideoPostProcessReturn ==
    /\ pc = "video_post_run"
    /\ log' = Append(log, Call("post_process_return", i))
    /\ active' = active \ {i}
    /\ pc' = "video_stage"
    /\ i' = i + 1
    /\ UNCHANGED <<handler, globals, files>>

\* A faulty variant of CreateVideo: a failed reassembly returns from start
CreateVideoAbort ==
    /\ pc = "video_stage"
    /\ i > frame_processors
    /\ \E ok \in BOOLEAN :
        /\ tmpvideo' = ok
        /\ log' = log \o
             (IF keep_fps
              THEN << update_status("Creating video with {fps} FPS...", 0),
                      Ev("create_video", detect_fps, Result(ok)) >>
              ELSE << update_status("Creating video with 30 FPS...", 0),
                      Ev("create_video", FallbackFps, Result(ok)) >>)
             \o (IF ok THEN <<>> ELSE << update_status("Creating video failed...", 0) >>)
        /\ pc' = IF ok THEN "audio" ELSE "returned"
    /\ UNCHANGED <<i, handler, globals, ws, frames, output, written, active>>

\* A faulty variant of CreateVideo: the video is always created at the
\* fallback rate
CreateVideoFallbackFps ==
    /\ pc = "video_stage"
    /\ i > frame_processors
    /\ \E ok \in BOOLEAN :
        /\ tmpvideo' = ok
        /\ log' = log \o
             << update_status("Creating video with 30 FPS...", 0),
                Ev("create_video", FallbackFps, Result(ok)) >>
             \o (IF ok THEN <<>> ELSE << update_status("Creating video failed...", 0) >>)
    /\ pc' = "audio"
    /\ UNCHANGED <<i, handler, globals, ws, frames, output, written, active>>

\* start, lines 179-187: create_video at the detected or the fallback rate;
\* a false result is reported and the flow goes on
CreateVideo ==
    /\ pc = "video_stage"
    /\ i > frame_processors
    /\ \E ok \in BOOLEAN :
        /\ tmpvideo' = ok
        /\ log' = log \o
             (IF keep_fps
              THEN << update_status("Creating video with {fps} FPS...", 0),
                      Ev("create_video", detect_fps, Result(ok)) >>
              ELSE << update_status("Creating video with 30 FPS...", 0),
                      Ev("create_video", FallbackFps, Result(ok)) >>)
             \o (IF ok THEN <<>> ELSE << update_status("Creating video failed...", 0) >>)
    /\ pc' = "audio"
    /\ UNCHANGED <<i, handler, globals, ws, frames, output, written, active>>

\* A faulty variant of HandleAudio: the test of skip_audio is inverted
HandleAudioInverted ==
    /\ pc = "audio"
    /\ log' = log \o
         (IF ~skip_audio
          THEN << Call("move_temp", 0), update_status("Skipping audio...", 0) >>
          ELSE << update_status(IF keep_fps
                                THEN "Restoring audio..."
                                ELSE "Restoring audio might cause issues as fps are not kept...", 0),
                  Call("restore_audio", 0) >>)
    /\ output' = IF tmpvideo THEN "valid" ELSE output
    /\ written' = IF tmpvideo THEN written \cup {output_file} ELSE written
    /\ tmpvideo' = IF ~skip_audio THEN FALSE ELSE tmpvideo
    /\ pc' = "clean"
    /\ UNCHANGED <<i, handler, globals, ws, frames, active>>

\* start, lines 189-197: move_temp when skip_audio, restore_audio otherwise.
\* Either puts the reassembled video, when there is one, at the output path.
HandleAudio ==
    /\ pc = "audio"
    /\ log' = log \o
         (IF skip_audio
          THEN << Call("move_temp", 0), update_status("Skipping audio...", 0) >>
          ELSE << update_status(IF keep_fps
                                THEN "Restoring audio..."
                                ELSE "Restoring audio might cause issues as fps are not kept...", 0),
                  Call("restore_audio", 0) >>)
    /\ output' = IF tmpvideo THEN "valid" ELSE output
    /\ written' = IF tmpvideo THEN written \cup {output_file} ELSE written
    /\ tmpvideo' = IF skip_audio THEN FALSE ELSE tmpvideo
    /\ pc' = "clean"
    /\ UNCHANGED <<i, handler, globals, ws, frames, active>>

\* start, lines 199-200: clean_temp(target)
CleanTemp ==
    /\ pc = "clean"
    /\ IF clean_temp_raises(ws)
       THEN /\ log' = log \o << update_status("Cleaning temporary resources...", 0),
                                Call("clean_temp", 0),
                                Ev("exception", 0, "clean_temp") >>
            /\ pc' = "crashed"
            /\ UNCHANGED <<ws, frames, tmpvideo>>
       ELSE /\ log' = log \o << update_status("Cleaning temporary resources...", 0),
                                Call("clean_temp", 0) >>
            /\ ws' = clean_temp_ws
            /\ frames' = clean_temp_frames
            /\ tmpvideo' = clean_temp_tmpvideo
            /\ pc' = "validate_video"
    /\ UNCHANGED <<i, handler, globals, output, written, active>>

\* start, lines 202-205: the video is validated, by is_video(target_path)
VideoValidate ==
    /\ pc = "validate_video"
    /\ log' = Append(log, update_status(IF target_valid
                                        THEN "Processing to video succeed!"
                                        ELSE "Processing to video failed!", 0))
    /\ pc' = "returned"
    /\ UNCHANGED <<i, handler, globals, files, active>>

----------------------------------------------------------------------------
\* destroy(), the SIGINT handler

\* The process is alive and the main flow can be interrupted.
Running == pc \notin {"run", "done", "returned", "exited", "usage_error", "crashed", "decoded"}

\* A faulty variant of Interrupt: destroy() returns to the interrupted code
\* instead of leaving the process
InterruptNoExit ==
    /\ handler
    /\ Running
    /\ log' = log \o << Call("destroy", 0) >>
              \o (IF target_path # "none" THEN << Call("clean_temp", 0) >> ELSE <<>>)
    /\ ws' = IF target_path # "none" THEN clean_temp_ws ELSE ws
    /\ frames' = IF target_path # "none" THEN clean_temp_frames ELSE frames
    /\ tmpvideo' = IF target_path # "none" THEN clean_temp_tmpvideo ELSE tmpvideo
    /\ active' = {}
    /\ pc' = pc
    /\ UNCHANGED <<i, handler, globals, output, written>>

\* A faulty variant of Interrupt: destroy exits without clean_temp
InterruptNoClean ==
    /\ handler
    /\ Running
    /\ log' = log \o << Call("destroy", 0), Call("sys.exit", 0) >>
    /\ active' = {}
    /\ pc' = "exited"
    /\ UNCHANGED <<i, handler, globals, files>>

\* destroy, lines 208-211, run by the handler of line 28 at any point of the
\* main flow: clean_temp when a target is set, then sys.exit()
Interrupt ==
    /\ handler
    /\ Running
    /\ IF target_path # "none" /\ clean_temp_raises(ws)
       THEN /\ log' = log \o << Call("destroy", 0), Call("clean_temp", 0),
                                Ev("exception", 0, "clean_temp") >>
            /\ pc' = "crashed"
            /\ UNCHANGED <<ws, frames, tmpvideo>>
       ELSE /\ log' = log \o << Call("destroy", 0) >>
                  \o (IF target_path # "none" THEN << Call("clean_temp", 0) >> ELSE <<>>)
                  \o << Call("sys.exit", 0) >>
            /\ ws' = IF target_path # "none" THEN clean_temp_ws ELSE ws
            /\ frames' = IF target_path # "none" THEN clean_temp_frames ELSE frames
            /\ tmpvideo' = IF target_path # "none" THEN clean_temp_tmpvideo ELSE tmpvideo
            /\ pc' = "exited"
    /\ active' = {}
    /\ UNCHANGED <<i, handler, globals, output, written>>

----------------------------------------------------------------------------
Next ==
    \/ ParseArgsSignal
    \/ ParseArgsError
    \/ ParseArgs
    \/ PreCheck
    \/ StagePreCheck
    \/ LimitResources
    \/ UiStart
    \/ StagePreStart
    \/ ImageCopy
    \/ ImageProcessCall
    \/ ImageProcessReturn
    \/ ImagePostProcessCall
    \/ ImagePostProcessReturn
    \/ ImageValidate
    \/ CreateTemp
    \/ ExtractFrames
    \/ GetTempFramePaths
    \/ VideoProcessCall
    \/ VideoProcessReturn
    \/ VideoPostProcessCall
    \/ VideoPostProcessReturn
    \/ CreateVideo
    \/ HandleAudio
    \/ CleanTemp
    \/ VideoValidate
    \/ Interrupt

Spec == Init /\ [][Next]_vars

----------------------------------------------------------------------------
\* parse_args on every machine: the runtime reports any list of providers
\* that holds the CPU provider, and the run is followed up to pre_check.

InitConfig ==
    /\ Fresh
    /\ available \in AvailableLists

NextConfig ==
    \/ ParseArgsSignal
    \/ ParseArgsError
    \/ ParseArgs

SpecConfig == InitConfig /\ [][NextConfig]_vars

----------------------------------------------------------------------------
\* decode_execution_providers as a function: any list of providers, any
\* list of name fragments.

Fragments ==
    { <<"c","p","u">>, <<"c","u","d","a">>, <<"c">>, <<"C","P","U">>,
      <<"m","l">>, <<"x">> }
FragmentLists == SeqsUpTo(Fragments, MaxRequested)

InitDecode ==
    /\ Fresh
    /\ available \in ProviderLists

\* decode_execution_providers(wanted), lines 81-83
DecodeExecutionProviders ==
    /\ pc = "run"
    /\ \E req \in FragmentLists :
        /\ requested' = req
        /\ execution_providers' = decode_execution_providers(available, req)
    /\ pc' = "decoded"
    /\ UNCHANGED <<i, handler, source_path, target_path, output_path, output_file, headless,
                   frame_processors, keep_fps, keep_temp, skip_audio, target_valid,
                   target_fps, available, thread_arg, execution_thread_count,
                   files, active, log>>

NextDecode == DecodeExecutionProviders

SpecDecode == InitDecode /\ [][NextDecode]_vars

----------------------------------------------------------------------------
\* Reading the log.

Idx(op) == {k \in 1..Len(log) : log[k].op = op}
Has(op) == Idx(op) # {}
Count(op) == Cardinality(Idx(op))
HasStatus(message) ==
    \E k \in 1..Len(log) : log[k].op = "update_status" /\ log[k].msg = message

\* The calls into frame processors and their returns, in order.
IsStageCall(e) ==
    e.op \in {"process_image", "process_image_return", "process_video",
              "process_video_return", "post_process", "post_process_return"}
StageLog == SelectSeq(log, IsStageCall)

\* The k-th stage event of a run over processors 1..n whose processing call
\* is `process`: process(1), its return, post_process(1), its return,
\* process(2), ...
ExpectedStage(k) == ((k - 1) \div 4) + 1
ExpectedOp(k, process) ==
    CASE (k - 1) % 4 = 0 -> process
      [] (k - 1) % 4 = 1 -> process \o "_return"
      [] (k - 1) % 4 = 2 -> "post_process"
      [] OTHER -> "post_process_return"
InOrder(process) ==
    /\ Len(StageLog) <= 4 * frame_processors
    /\ \A k \in 1..Len(StageLog) :
        /\ StageLog[k].op = ExpectedOp(k, process)
        /\ StageLog[k].arg = ExpectedStage(k)

----------------------------------------------------------------------------
\* Cleanup of the workspace

\* C1: for a video target, whenever start() has returned after create_temp
\* was called, clean_temp was called after it -- also when no frames were
\* extracted and when create_video failed.
C1_CleanupOnEveryReturn ==
    (pc = "returned" /\ Has("create_temp"))
        => \E c \in Idx("clean_temp") : \A k \in Idx("create_temp") : k < c

\* The handler has run: destroy, then clean_temp when a target is set, then
\* sys.exit, are the last calls of the log.
DestroyRan ==
    /\ Len(log) >= 2
    /\ log[Len(log)].op = "sys.exit"
    /\ IF target_path # "none"
       THEN /\ Len(log) >= 3
            /\ log[Len(log) - 1].op = "clean_temp"
            /\ log[Len(log) - 2].op = "destroy"
       ELSE log[Len(log) - 1].op = "destroy"

\* C2, as claimed: after an interrupt the process has terminated, destroy()
\* has run clean_temp on the target, and the workspace does not exist.
C2_InterruptRemovesWorkspace ==
    pc = "exited" => (DestroyRan /\ ~ws)

\* C2, amended: after an interrupt the process has terminated, destroy() has
\* run clean_temp when a target path is set, and the workspace does not exist
\* unless keep_temp was requested.
C2_InterruptCleansUnlessKept ==
    pc = "exited" => (DestroyRan /\ (~keep_temp => (~ws /\ frames = 0)))

\* C2's case: the interrupt arrived while a processor was inside
\* process_video, the workspace had been created and is gone.
C2_Witness ==
    /\ pc = "exited"
    /\ ~keep_temp
    /\ ~ws
    /\ Has("create_temp")
    /\ \E k \in Idx("process_video") : log[k + 1].op = "destroy"

----------------------------------------------------------------------------
\* Order of the frame processors

\* C3: for a video target the calls are process_video(1), post_process(1),
\* process_video(2), post_process(2), ..., each returned before the next is
\* made; at most one processor is active; reassembly starts only after the
\* last post_process has returned.
C3_VideoStagesInOrder ==
    target_path = "video" =>
        /\ InOrder("process_video")
        /\ Cardinality(active) <= 1
        /\ Has("create_video") => Len(StageLog) = 4 * frame_processors

\* C3's case: two processors have run over a non-empty frame list.
C3_Witness ==
    /\ target_path = "video"
    /\ frames > 0
    /\ frame_processors >= 2
    /\ Has("create_video")
    /\ Len(StageLog) = 4 * frame_processors

----------------------------------------------------------------------------
\* Preflight

PreflightFailed ==
    \E k \in 1..Len(log) : log[k].op \in {"pre_check", "pre_start"} /\ log[k].msg = "false"

SideEffectOps ==
    {"create_temp", "extract_frames", "copy2", "create_video", "move_temp",
     "restore_audio", "process_image", "process_video", "post_process"}

\* C4: once a processor's pre_check or pre_start has returned false, no
\* workspace is created, the output path is not written and no processor's
\* process_image, process_video or post_process is called.
C4_PreflightFailureNoSideEffects ==
    PreflightFailed =>
        /\ \A k \in 1..Len(log) : log[k].op \notin SideEffectOps
        /\ ~ws
        /\ output = "absent"

\* C4's case: the second processor's pre_start failed and start returned.
C4_Witness ==
    /\ pc = "returned"
    /\ \E k \in Idx("pre_start") : log[k].arg = 2 /\ log[k].msg = "false"

\* C5: with an image target, create_temp, extract_frames, create_video,
\* move_temp and restore_audio are never called and no workspace exists.
C5_ImageNeverUsesWorkspace ==
    has_image_extension(target_path) =>
        /\ \A k \in 1..Len(log) :
            log[k].op \notin {"create_temp", "extract_frames", "create_video",
                              "move_temp", "restore_audio"}
        /\ ~ws

\* C5's case: an image job ran its processors and returned.
C5_Witness ==
    /\ has_image_extension(target_path)
    /\ pc = "returned"
    /\ Has("process_image")
    /\ Has("copy2")

----------------------------------------------------------------------------
\* Final status and reassembly

\* C6: the final status follows the file at the output path: success is
\* reported if and only if that file is a valid image (image path) or a
\* valid video (video path), failure otherwise.
C6_StatusFollowsOutput ==
    pc = "returned" =>
        /\ HasStatus("Processing to image succeed!") => output = "valid"
        /\ HasStatus("Processing to image failed!") => output # "valid"
        /\ HasStatus("Processing to video succeed!") => output = "valid"
        /\ HasStatus("Processing to video failed!") => output # "valid"

AudioCalls == Idx("move_temp") \cup Idx("restore_audio")

\* C7: when create_video reports failure, 'Creating video failed...' is
\* reported right after it, and start() returns only after audio handling
\* and then clean_temp have been called.
C7_ReassemblyFailureStillCleans ==
    \A k \in Idx("create_video") :
        log[k].msg = "false" =>
            /\ Len(log) > k
            /\ log[k + 1] = update_status("Creating video failed...", 0)
            /\ pc = "returned" =>
                \E a \in AudioCalls : a > k /\ \E c \in Idx("clean_temp") : c > a

\* C7's case: reassembly failed and start() has returned.
C7_Witness ==
    /\ pc = "returned"
    /\ \E k \in Idx("create_video") : log[k].msg = "false"
    /\ Has("clean_temp")

\* C8: for an image target the target is copied to the output path once,
\* before any processor runs; then process_image(1), post_process(1),
\* process_image(2), ... are called in the requested order, each on the
\* output path and each returned before the next; when start() returns every
\* processor has run exactly once.
C8_ImageStagesInOrder ==
    has_image_extension(target_path) =>
        /\ InOrder("process_image")
        /\ Count("copy2") <= 1
        /\ \A k \in Idx("process_image") :
            /\ log[k].msg = "output_path->output_path"
            /\ \E c \in Idx("copy2") : c < k
        /\ (pc = "returned" /\ Has("copy2")) => Len(StageLog) = 4 * frame_processors

\* C8's case: an image job with two processors has returned.
C8_Witness ==
    /\ has_image_extension(target_path)
    /\ pc = "returned"
    /\ frame_processors >= 2
    /\ Len(StageLog) = 4 * frame_processors

AudioWarning == "Restoring audio might cause issues as fps are not kept..."

\* C9: after reassembly exactly one of move_temp and restore_audio is called,
\* once: move_temp when skip_audio, restore_audio otherwise; the fps warning
\* is reported exactly when audio is restored with keep_fps false, and the
\* run goes on to cleanup and validation.
C9_AudioHandledOnce ==
    /\ Cardinality(AudioCalls) <= 1
    /\ \A a \in AudioCalls : \E c \in Idx("create_video") : c < a
    /\ (pc \in {"clean", "validate_video", "returned"} /\ Has("create_video"))
           => Cardinality(AudioCalls) = 1
    /\ skip_audio => ~Has("restore_audio")
    /\ ~skip_audio => ~Has("move_temp")
    /\ HasStatus(AudioWarning) <=> (Has("restore_audio") /\ ~keep_fps)
    /\ (pc = "returned" /\ HasStatus(AudioWarning))
           => /\ Has("clean_temp")
              /\ \/ HasStatus("Processing to video succeed!")
                 \/ HasStatus("Processing to video failed!")

\* C9's case: audio was restored with keep_fps false and the run completed.
C9_Witness ==
    /\ pc = "returned"
    /\ Has("restore_audio")
    /\ ~keep_fps
    /\ HasStatus(AudioWarning)

----------------------------------------------------------------------------
\* Order of the phases

StageWork == {"pre_start", "process_image", "process_video"}
PathCalls == {"copy2", "create_temp", "process_image", "process_video"}

----------------------------------------------------------------------------
\* Resolution of the execution providers

\* The name of a provider as the claim encodes it: the suffix
\* 'ExecutionProvider' cut off the end, the rest in lower case.
HasSuffix(p) ==
    /\ Len(p) >= Len(ExecutionProvider)
    /\ SubSeq(p, Len(p) - Len(ExecutionProvider) + 1, Len(p)) = ExecutionProvider
EncodedName(p) ==
    lower(IF HasSuffix(p) THEN SubSeq(p, 1, Len(p) - Len(ExecutionProvider)) ELSE p)

Matched(p) == \E k \in 1..Len(requested) : contains(requested[k], EncodedName(p))
Position(p) == CHOOSE k \in 1..Len(available) : available[k] = p

\* C11: the resolved providers are a sub-sequence of the available list, in
\* the runtime's order, and hold exactly the available providers whose
\* encoded name contains a requested fragment.
C11_ResolvedIsOrderedSelection ==
    pc = "decoded" =>
        /\ Range(execution_providers) \subseteq Range(available)
        /\ \A a, b \in 1..Len(execution_providers) :
            a < b => Position(execution_providers[a]) < Position(execution_providers[b])
        /\ \A p \in Range(available) : p \in Range(execution_providers) <=> Matched(p)

\* C11's case: CPU is requested before CUDA, the runtime reports CUDA before
\* CPU, and the result is in the runtime's order.
C11_Witness ==
    /\ pc = "decoded"
    /\ requested = << <<"c","p","u">>, <<"c","u","d","a">> >>
    /\ available = <<CUDAExecutionProvider, CPUExecutionProvider>>
    /\ execution_providers = <<CUDAExecutionProvider, CPUExecutionProvider>>

NoneMatched == \A p \in Range(available) : ~Matched(p)

\* C12: when no requested name matches an available provider the resolution
\* fails with a configuration error (or falls back to the CPU provider): the
\* run never goes on from parse_args with an empty list of providers.
C12_NeverProceedsWithoutProvider ==
    /\ pc = "pre_check" => (execution_providers # <<>> /\ ~NoneMatched)
    /\ (pc \in {"pre_check", "usage_error"} /\ NoneMatched)
           => /\ pc = "usage_error"
              /\ log[Len(log)].op = "argparse.error"
              /\ execution_providers = <<>>

\* C12's case: CUDA is requested on a machine that reports the CPU provider
\* only, and the run has ended with a usage error.
C12_Witness ==
    /\ pc = "usage_error"
    /\ available = <<CPUExecutionProvider>>
    /\ requested = << <<"c","u","d","a">> >>
    /\ NoneMatched

----------------------------------------------------------------------------
\* Default of the thread count

ThreadCountIs(gpu) ==
    execution_thread_count =
        IF thread_arg # <<>> THEN thread_arg[1] ELSE IF gpu THEN 4 ELSE 1

\* C15, as claimed: the default thread count is 4 when a resolved (selected)
\* provider is the GPU provider and 1 otherwise; a count given explicitly
\* overrides the default.
C15_DefaultFollowsSelected ==
    pc = "pre_check" =>
        ThreadCountIs(CUDAExecutionProvider \in Range(execution_providers))

\* C15, amended: the default thread count is 4 when the runtime reports
\* CUDAExecutionProvider as available, selected or not, and 1 otherwise; a
\* count given explicitly overrides the default.
C15_DefaultFollowsAvailable ==
    pc = "pre_check" =>
        ThreadCountIs(CUDAExecutionProvider \in Range(available))

\* C15's case: CUDA is available, only the CPU provider is selected, no
\* count is given, and the count is 4.
C15_Witness ==
    /\ pc = "pre_check"
    /\ thread_arg = <<>>
    /\ CUDAExecutionProvider \in Range(available)
    /\ execution_providers = <<CPUExecutionProvider>>
    /\ execution_thread_count = 4

----------------------------------------------------------------------------
\* Discarding the workspace twice

CleanTempCalled ==
    Cardinality({k \in 1..Len(log') : log'[k].op = "clean_temp"}) > Count("clean_temp")

----------------------------------------------------------------------------
\* A video that yields no frames

NoFrames ==
    \E k \in Idx("get_temp_frame_paths") : log[k].msg = "empty"

\* C16: when get_temp_frame_paths returns an empty list, no stage's
\* process_video or post_process runs, create_video, move_temp and
\* restore_audio are not called, the output is not written, the last thing
\* start() does is report 'Temporary frames not found...', and success is
\* never reported.
C16_NoFramesNoProcessing ==
    NoFrames =>
        /\ pc = "returned"
        /\ log[Len(log)] = update_status("Temporary frames not found...", 0)
        /\ ~Has("process_video")
        /\ ~Has("post_process")
        /\ ~Has("create_video")
        /\ ~Has("move_temp")
        /\ ~Has("restore_audio")
        /\ output = "absent"
        /\ ~HasStatus("Processing to video succeed!")

\* C16's case: frames were extracted from a video target and none was found.
C16_Witness ==
    /\ pc = "returned"
    /\ NoFrames
    /\ Has("extract_frames")
    /\ frames = 0

----------------------------------------------------------------------------
\* The frame rate

SelectedFps == IF keep_fps THEN detect_fps ELSE FallbackFps

\* C17: the frame rate given to create_video is the frame rate given to
\* extract_frames: the detected rate of the target when keep_fps is set, and
\* 30 otherwise.
C17_SameFpsBothWays ==
    /\ \A k \in Idx("extract_frames") : log[k].arg = SelectedFps
    /\ \A k \in Idx("create_video") :
           /\ log[k].arg = SelectedFps
           /\ \E j \in Idx("extract_frames") : j < k /\ log[j].arg = log[k].arg

\* C17's case: a video was reassembled at a detected rate other than 30.
C17_Witness ==
    /\ Has("create_video")
    /\ keep_fps
    /\ target_fps = 25
    /\ \E k \in Idx("create_video") : log[k].arg = 25

----------------------------------------------------------------------------
\* Nothing runs after destroy()

\* C18: once destroy() has run the process has exited: whatever follows
\* destroy in the history is its own clean_temp and sys.exit, no stage is
\* running, and no further step of the flow is taken.
C18_NothingAfterDestroy ==
    \A k \in Idx("destroy") :
        /\ pc = "exited"
        /\ active = {}
        /\ log[Len(log)].op = "sys.exit"
        /\ \A j \in (k + 1)..Len(log) : log[j].op \in {"clean_temp", "sys.exit"}

\* C18's case: the interrupt arrived while a stage was processing an image.
C18_Witness ==
    /\ pc = "exited"
    /\ \E k \in Idx("destroy") : k > 1 /\ log[k - 1].op = "process_image"

----------------------------------------------------------------------------
\* What is reported when the flow stops

Stopped == pc \in {"done", "returned"}
Last == log[Len(log)]
LastIsCoreStatus == Len(log) > 0 /\ Last.op = "update_status" /\ Last.arg = 0

\* C14: whenever run() or start() has stopped -- a stage's pre_check or
\* pre_start failing, no frames found, or the final success or failure -- the
\* last thing that happened is an update_status message of the orchestrator.
C14_EveryStopAnnounced == Stopped => LastIsCoreStatus

----------------------------------------------------------------------------
\* What the image path writes

ImagePath == has_image_extension(target_path) /\ Has("copy2")
WritesToOutputPath ==
    /\ \A k \in Idx("copy2") : log[k].msg = "target_path->output_path"
    /\ \A k \in Idx("process_image") : log[k].msg = "output_path->output_path"

\* C19 as stated: on the image path neither the target file nor the source
\* file is ever written.
C19_TargetAndSourceNeverWritten ==
    ImagePath => (written \cap {"source", "target"} = {} /\ WritesToOutputPath)

\* C19: on the image path every write of start() and its stages goes to the
\* output path, and the file it names is the only file written.  The target
\* file is never written: when the output path names the target itself the
\* copy fails before writing.  The source file is written only when the
\* output path names it.
C19_ImagePathWritesOutputOnly ==
    ImagePath =>
        /\ WritesToOutputPath
        /\ written \subseteq {output_file}
        /\ "target" \notin written
        /\ "source" \in written => output_file = "source"
        /\ output_file = "target" => (pc = "crashed" /\ written = {} /\ output = "absent")
        /\ pc = "returned" => written = {output_file}

\* C19's case: two stages have processed an image and start() has returned.
C19_Witness ==
    /\ pc = "returned"
    /\ ImagePath
    /\ Count("process_image_return") = 2
    /\ written = {"output"}

====
